---------------------------- MODULE Spec2Model ----------------------------
(***************************************************************************)
(* GreenGate backend: the geospatial validation engine                     *)
(* (app/services/validation_engine.py), the API-key admission middleware   *)
(* (app/middleware/api_key_tracker.py, app/services/api_key_service.py)    *)
(* the report audit trail (app/api/reports.py, app/services/audit.py),     *)
(* the rate limiters (app/core/rate_limit.py), the auth endpoints          *)
(* (app/api/auth.py), the middleware chain (app/main.py) and the dataset   *)
(* version registry (app/services/dataset_service.py).                     *)
(***************************************************************************)
EXTENDS Integers, Sequences, FiniteSets, TLC

VARIABLES
    \* ---- validation engine (GeoValidationEngine.validate_plot) ----
    layers,     \* what the overlap query of each check run so far returned
    idx,        \* position of validate_plot in check_functions
    checks,     \* the list `checks` built by validate_plot
    session,    \* transaction state of the engine's AsyncSession
    verdict,    \* the GeoValidationResult returned, or NoVerdict
    \* ---- API-key admission (APIKeyTrackerMiddleware, APIKeyService) ----
    key,        \* the api_keys row of the presented key (committed state)
    now,        \* the wall clock, in days
    lock,       \* the request holding the row lock on that row, or NoLock
    req,        \* the requests going through APIKeyTrackerMiddleware.dispatch
    admin,      \* the admin session: an upgrade_plan between read and commit
    adminOps,   \* number of admin operations started
    start,      \* quota and usage of the row in the initial state
    disturbed,  \* a window reset or an admin write happened since then
    \* ---- report audit trail (generate_quick_report, AuditService) ----
    reports,    \* the rows of table validation_reports
    varchar_enforced, \* whether the store rejects a value longer than its
                \* VARCHAR(n) column (PostgreSQL does; a store that treats
                \* the declared length as advisory does not)
    rep,        \* the requests going through generate_quick_report
    verified,   \* the last response of a verification endpoint
    \* ---- rate limiter (InMemoryRateLimiter) ----
    _requests,  \* InMemoryRateLimiter._requests: client id -> timestamps
    _last_cleanup, \* InMemoryRateLimiter._last_cleanup
    time,       \* time.time(), in seconds
    granted,    \* per client id, the times of the calls answered allowed
    \* ---- auth endpoints (login, register) ----
    emails,     \* the api_keys rows that carry a client_email
    regs,       \* the requests going through register
    logins,     \* number of login calls made
    \* ---- middleware chain (create_app) ----
    pipe,       \* the request going through the middleware chain
    settings,   \* app.core.config.settings
    \* ---- dataset version registry (DatasetVersionService) ----
    dataset_versions, \* the committed rows of table dataset_versions
    writers,    \* the register_new_version calls and their transactions
    readers,    \* the get_active_versions calls
    _versions_cache,  \* dataset_service._versions_cache
    _cache_timestamp, \* dataset_service._cache_timestamp
    utcnow,     \* datetime.now(timezone.utc), in seconds
    \* ---- shared rate limiter (RedisRateLimiter) ----
    zset,       \* the Redis sorted set of one client: member -> score
    calls       \* the RedisRateLimiter.check calls for that client

engineVars == << layers, idx, checks, session, verdict >>

quotaRows == << key, lock, req, admin, adminOps, start, disturbed >>

quotaVars == << quotaRows, now >>

auditVars == << reports, varchar_enforced, rep, verified >>

limiterVars == << _requests, _last_cleanup, time, granted >>

authVars == << emails, regs, logins >>

pipeVars == << pipe, settings >>

webVars == << limiterVars, authVars, pipeVars >>

registryVars ==
    << dataset_versions, writers, readers, _versions_cache, _cache_timestamp,
       utcnow >>

redisVars == << zset, calls >>

dataVars == << registryVars, redisVars >>

vars == << engineVars, quotaVars, auditVars, webVars, dataVars >>

-----------------------------------------------------------------------------
(* Bounds *)

\* Largest overlap area a layer query returns, in units of 0.0001 ha.
MaxOverlap == 2

\* Number of requests that go through the admission middleware.
NumReqs == 2

\* Number of admin operations (upgrade, reset-quota, revoke, reactivate).
MaxAdminOps == 1

\* The clock advances in steps of TickDays up to MaxNow.
TickDays == 15

MaxNow == 30

\* The initial usage of a key is 0 or within InitUsedBack of its quota.
InitUsedBack == 1

\* expires_in_days of the key, when it has an expiry.
ExpiresInDays == 15

\* Number of requests that go through generate_quick_report.
NumReports == 2

\* Number of values of the 4-character random part of a report code.
NumRandomParts == 2

\* Number of client addresses.
NumIps == 1

\* Number of e-mail addresses.
NumEmails == 1

\* Number of requests that go through register.
NumRegs == 4

\* Number of login calls.
MaxLogins == 6

\* Number of requests that go through the middleware chain.
MaxPipelineRequests == 2

\* The limiter's clock advances in steps of RateTickSeconds up to MaxSeconds.
RateTickSeconds == 61

MaxSeconds == 61

\* In the audit trail the clock advances in steps of AuditTickDays up to
\* MaxAuditNow.
AuditTickDays == 46

MaxAuditNow == 92

\* Number of register_new_version calls and of get_active_versions calls.
NumWriters == 2

NumReaders == 2

\* Versions are numbered 1 .. MaxVersion.
MaxVersion == 3

\* In the registry the clock advances in steps of RegistryTickSeconds up to
\* MaxRegistrySeconds.
RegistryTickSeconds == 150

MaxRegistrySeconds == 300

\* Number of RedisRateLimiter.check calls for one client, and of worker
\* processes that make them.
NumCalls == 2

NumWorkers == 2

-----------------------------------------------------------------------------
(* app/models/schemas.py *)

CheckType == { "deforestation_prodes", "deforestation_mapbiomas",
               "terra_indigena", "quilombola", "uc", "embargo_ibama",
               "app_water" }

CheckStatus == { "pass", "fail", "warning", "skip" }

ComplianceStatus == { "pending", "approved", "rejected", "warning" }

NoVerdict == [ status |-> "none" ]

-----------------------------------------------------------------------------
(* app/services/validation_engine.py *)

CHECK_WEIGHTS ==
    [ k \in { "deforestation_prodes", "deforestation_mapbiomas",
              "terra_indigena", "embargo_ibama", "quilombola", "uc" } |->
        CASE k = "deforestation_prodes"    -> 35
          [] k = "deforestation_mapbiomas" -> 25
          [] k = "terra_indigena"          -> 15
          [] k = "embargo_ibama"           -> 15
          [] k = "quilombola"              -> 5
          [] k = "uc"                      -> 5 ]

\* `overlap["total_area_ha"] > 0.0001`, in units of 0.0001 ha
OVERLAP_MIN == 1

\* Outcome of the overlap query of one layer: the summed overlap area, whether
\* one of the overlapping features is a strict-protection UC, and the error
\* the query raises ("none" when it returns).
QueryErrors == { "none", "timeout", "db_error" }

LayerOutcome(kind) ==
    { o \in [ area : 0 .. MaxOverlap, integral : BOOLEAN, err : QueryErrors ] :
        /\ (o.integral => kind = "uc" /\ o.area > OVERLAP_MIN)
        /\ (o.err # "none" => o.area = 0 /\ ~o.integral) }

check_functions_without_uc ==
    << "deforestation_prodes", "deforestation_mapbiomas", "terra_indigena",
       "embargo_ibama", "quilombola" >>

check_functions_with_app_water ==
    << "deforestation_prodes", "deforestation_mapbiomas", "terra_indigena",
       "embargo_ibama", "quilombola", "uc", "app_water" >>

check_functions ==
    << "deforestation_prodes", "deforestation_mapbiomas", "terra_indigena",
       "embargo_ibama", "quilombola", "uc" >>

GeoCheckResult(kind, status, score, error) ==
    [ check_type |-> kind, status |-> status, score |-> score,
      error |-> error ]

_error_check_result(kind, error) == GeoCheckResult(kind, "skip", 50, error)

\* _check_deforestation_prodes, _check_deforestation_mapbiomas,
\* _check_terra_indigena, _check_embargo_ibama, _check_quilombola
_check_zero_tolerance(kind, o) ==
    IF o.area > OVERLAP_MIN
    THEN GeoCheckResult(kind, "fail", 0, "")
    ELSE GeoCheckResult(kind, "pass", 100, "")

_check_unidade_conservacao(kind, o) ==
    IF o.area > OVERLAP_MIN
    THEN IF o.integral
         THEN GeoCheckResult(kind, "fail", 0, "")
         ELSE GeoCheckResult(kind, "warning", 70, "")
    ELSE GeoCheckResult(kind, "pass", 100, "")

\* _check_app_water (disabled in check_functions)
_check_app_water(kind, o) ==
    IF o.area > 0
    THEN GeoCheckResult(kind, "warning", 60, "")
    ELSE GeoCheckResult(kind, "pass", 100, "")

check_func(kind, o) ==
    CASE kind = "uc"        -> _check_unidade_conservacao(kind, o)
      [] kind = "app_water" -> _check_app_water(kind, o)
      [] OTHER              -> _check_zero_tolerance(kind, o)

\* `async with self.db.begin_nested()` left through an exception: the
\* SAVEPOINT is rolled back and the enclosing transaction is usable again.
begin_nested_exit_no_rollback(s) == s

begin_nested_exit(s) == "ok"

\* _execute_check_safely: the result and the session state it leaves behind.
\* A statement that fails (or is cancelled by the statement timeout) puts the
\* PostgreSQL transaction in the aborted state; entering begin_nested() on an
\* aborted transaction raises as well.
_execute_check_safely(kind, o, s) ==
    IF s = "aborted"
    THEN [ result  |-> _error_check_result(kind, "in_failed_transaction"),
           session |-> begin_nested_exit("aborted") ]
    ELSE IF o.err # "none"
    THEN [ result  |-> _error_check_result(kind, o.err),
           session |-> begin_nested_exit("aborted") ]
    ELSE [ result |-> check_func(kind, o), session |-> s ]

RECURSIVE SumWeights(_, _)
SumWeights(cs, i) ==
    IF i > Len(cs) THEN 0
    ELSE (IF cs[i].check_type \in DOMAIN CHECK_WEIGHTS
          THEN CHECK_WEIGHTS[cs[i].check_type] ELSE 0) + SumWeights(cs, i + 1)

RECURSIVE SumWeighted(_, _)
SumWeighted(cs, i) ==
    IF i > Len(cs) THEN 0
    ELSE (IF cs[i].check_type \in DOMAIN CHECK_WEIGHTS
          THEN CHECK_WEIGHTS[cs[i].check_type] ELSE 0) * cs[i].score
         + SumWeighted(cs, i + 1)

\* the weighted sum divided by the number of checks
_calculate_risk_score_per_check(cs) ==
    IF SumWeights(cs, 1) = 0 THEN 50
    ELSE SumWeighted(cs, 1) \div Len(cs)

_calculate_risk_score(cs) ==
    IF SumWeights(cs, 1) = 0 THEN 50
    ELSE SumWeighted(cs, 1) \div SumWeights(cs, 1)

critical_blockers_without_quilombola ==
    { "terra_indigena", "embargo_ibama", "deforestation_prodes" }

critical_blockers ==
    { "terra_indigena", "quilombola", "embargo_ibama", "deforestation_prodes" }

\* the has_critical_blocker loop of validate_plot
has_critical_blocker(cs) ==
    \E i \in 1 .. Len(cs) :
        \/ cs[i].check_type \in critical_blockers /\ cs[i].status = "fail"
        \/ cs[i].check_type = "uc" /\ cs[i].score = 0

\* the has_critical_blocker loop of _determine_status, with its own list
status_critical_blockers ==
    { "terra_indigena", "quilombola", "embargo_ibama", "deforestation_prodes" }

_determine_status_no_warning_branch(cs) ==
    IF \E i \in 1 .. Len(cs) :
          \/ cs[i].check_type \in status_critical_blockers
             /\ cs[i].status = "fail"
          \/ cs[i].check_type = "uc" /\ cs[i].score = 0
    THEN "rejected"
    ELSE IF _calculate_risk_score(cs) >= 75 THEN "approved"
    ELSE IF _calculate_risk_score(cs) >= 60 THEN "warning"
    ELSE "rejected"

_determine_status(cs) ==
    IF \E i \in 1 .. Len(cs) :
          \/ cs[i].check_type \in status_critical_blockers
             /\ cs[i].status = "fail"
          \/ cs[i].check_type = "uc" /\ cs[i].score = 0
    THEN "rejected"
    ELSE IF _calculate_risk_score(cs) >= 75
    THEN IF \E i \in 1 .. Len(cs) : cs[i].status = "warning"
         THEN "warning"
         ELSE "approved"
    ELSE IF _calculate_risk_score(cs) >= 60 THEN "warning"
    ELSE "rejected"

-----------------------------------------------------------------------------
(* validate_plot *)

InitEngine ==
    /\ layers = << >>
    /\ idx = 1
    /\ checks = << >>
    /\ session = "ok"
    /\ verdict = NoVerdict

\* one iteration of `for check_type, check_func in check_functions`: the
\* overlap query of the layer returns outcome o
ExecuteCheck ==
    /\ idx <= Len(check_functions)
    /\ LET kind == check_functions[idx]
       IN  \E o \in LayerOutcome(kind) :
              LET r == _execute_check_safely(kind, o, session)
              IN  /\ layers' = (kind :> o) @@ layers
                  /\ checks' = Append(checks, r.result)
                  /\ session' = r.session
    /\ idx' = idx + 1
    /\ UNCHANGED << dataVars, quotaVars, auditVars, webVars, verdict >>

\* the rest of validate_plot, from `status = self._determine_status(checks)`
ReturnVerdict ==
    /\ idx = Len(check_functions) + 1
    /\ verdict = NoVerdict
    /\ verdict' = [ status     |-> _determine_status(checks),
                    risk_score |-> IF has_critical_blocker(checks)
                                   THEN 0
                                   ELSE _calculate_risk_score(checks),
                    checks     |-> checks ]
    /\ UNCHANGED << dataVars, quotaVars, auditVars, webVars,
                    layers, idx, checks, session >>

NextEngine == ExecuteCheck \/ ReturnVerdict

-----------------------------------------------------------------------------
(* app/services/api_key_service.py, app/models/api_key.py *)

\* NULL column value
NULL == -1

NoLock == 0

PLANS == [ free |-> 3, professional |-> 50, enterprise |-> NULL ]

PlanNames == { "free", "professional", "enterprise" }

\* `days_since_reset >= 30` in track_usage; `30 * 86400` in dispatch
RESET_DAYS == 30

has_quota_available_inclusive(k) ==
    IF k.monthly_quota = NULL THEN TRUE
    ELSE k.requests_this_month <= k.monthly_quota

\* APIKey.has_quota_available
has_quota_available(k) ==
    IF k.monthly_quota = NULL THEN TRUE
    ELSE k.requests_this_month < k.monthly_quota

Max0(n) == IF n > 0 THEN n ELSE 0

\* APIKey.quota_remaining
quota_remaining_of(k) ==
    IF k.monthly_quota = NULL THEN NULL
    ELSE Max0(k.monthly_quota - k.requests_this_month)

\* APIKeyService.check_quota
check_quota(k) ==
    [ has_quota           |-> has_quota_available(k),
      monthly_quota       |-> k.monthly_quota,
      requests_this_month |-> k.requests_this_month,
      quota_remaining     |-> quota_remaining_of(k) ]

\* APIKeyService.track_usage: the row after its UPDATE.  `rec` is the record
\* the caller loaded, `row` the row the UPDATE is applied to, `n` the clock.
track_usage(rec, row, n) ==
    IF rec.last_reset_at # NULL /\ n - rec.last_reset_at >= RESET_DAYS
    THEN [ row EXCEPT !.total_requests = @ + 1,
                      !.requests_this_month = 1,
                      !.last_reset_at = n ]
    ELSE IF rec.last_reset_at = NULL
    THEN [ row EXCEPT !.total_requests = @ + 1,
                      !.requests_this_month = @ + 1,
                      !.last_reset_at = n ]
    ELSE [ row EXCEPT !.total_requests = @ + 1,
                      !.requests_this_month = @ + 1 ]

\* whether track_usage takes its monthly-reset branch
needs_reset(rec, n) ==
    rec.last_reset_at # NULL /\ n - rec.last_reset_at >= RESET_DAYS

\* APIKeyService.upgrade_plan, the UPDATE flushed at commit: the unit of work
\* writes the attributes whose new value differs from the value loaded by
\* the SELECT (`rec`); the other columns of `row` are left as they are.
upgrade_plan_flush(rec, row, new_plan, n) ==
    [ row EXCEPT
        !.plan = IF new_plan # rec.plan THEN new_plan ELSE @,
        !.monthly_quota =
            IF PLANS[new_plan] # rec.monthly_quota THEN PLANS[new_plan] ELSE @,
        !.requests_this_month = IF rec.requests_this_month # 0 THEN 0 ELSE @,
        !.last_reset_at = IF rec.last_reset_at # n THEN n ELSE @ ]

-----------------------------------------------------------------------------
(* app/middleware/api_key_tracker.py *)

Reqs == 1 .. NumReqs

NoResponse == [ status |-> 0 ]

\* a request before dispatch; after its response has been sent only the
\* status of the response is kept
IdleReq == [ pc |-> "idle", resp |-> NoResponse ]

\* `.with_for_update()` of the SELECT in dispatch: who holds the row lock
\* once the statement has returned the row to request p
select_without_for_update(p) == NoLock

with_for_update(p) == p

\* the X-RateLimit-Reset value computed from last_reset_at
reset_timestamp(rec) ==
    IF rec.last_reset_at # NULL THEN rec.last_reset_at + RESET_DAYS ELSE 0

InitQuota ==
    /\ \E plan \in PlanNames :
       \E used \in { u \in 0 .. 50 :
                       IF PLANS[plan] = NULL THEN u = 0
                       ELSE /\ u <= PLANS[plan]
                            /\ u = 0 \/ u >= PLANS[plan] - InitUsedBack } :
       \E exp \in { NULL, ExpiresInDays }, revoked \in BOOLEAN :
          key = [ plan |-> plan, monthly_quota |-> PLANS[plan],
                  requests_this_month |-> used, total_requests |-> used,
                  last_reset_at |-> IF used = 0 THEN NULL ELSE 0,
                  is_active |-> TRUE, is_revoked |-> revoked,
                  expires_at |-> exp ]
    /\ now = 0
    /\ lock = NoLock
    /\ req = [ p \in Reqs |-> IdleReq ]
    /\ admin = [ pc |-> "idle" ]
    /\ adminOps = 0
    /\ start = [ monthly_quota |-> key.monthly_quota,
                 requests_this_month |-> key.requests_this_month ]
    /\ disturbed = FALSE

\* the CORS headers dispatch puts on its own error responses
CORS_HEADERS ==
    [ Access_Control_Allow_Origin      |-> "*",
      Access_Control_Allow_Credentials |-> "true",
      Access_Control_Allow_Methods     |-> "*",
      Access_Control_Allow_Headers     |-> "*" ]

\* the Response dispatch returns when the SELECT finds no row
InvalidKeyResponse ==
    [ status     |-> 401,
      content    |-> "API Key invalida ou expirada.",
      media_type |-> "application/json",
      headers    |-> CORS_HEADERS ]

\* the Response dispatch returns for a key past its expires_at
ExpiredKeyResponse ==
    [ status     |-> 401,
      content    |-> "API Key expirada.",
      media_type |-> "application/json",
      headers    |-> CORS_HEADERS ]

\* the x-api-key values a request can present: the key of the row, or a
\* key whose hash is in no row
PresentedKeys == { "registered", "unregistered" }

\* the filter on is_active and is_revoked in dispatch's SELECT, once
\* key_hash has matched
where_revoked_too(row) == row.is_active

where_clause(row) == row.is_active /\ ~row.is_revoked

\* what the table holds for the presented key when the SELECT runs
row_state(presented) ==
    IF presented = "unregistered" THEN "absent"
    ELSE IF key.is_revoked THEN "revoked"
    ELSE IF ~key.is_active THEN "inactive"
    ELSE "valid"

\* dispatch of a request bearing a key, up to the point where the
\* SELECT ... FOR UPDATE is issued (`now` is read before the statement)
Dispatch(p) ==
    /\ req[p].pc = "idle"
    /\ \E presented \in PresentedKeys :
          req' = [ req EXCEPT ![p] = [ pc |-> "select", now |-> now,
                                       x_api_key |-> presented,
                                       resp |-> NoResponse ] ]
    /\ UNCHANGED << dataVars, engineVars, auditVars, webVars,
                    key, now, lock, admin, adminOps, start, disturbed >>

\* the SELECT ... FOR UPDATE returns: it waits while another transaction
\* holds the lock of a matching row.  `row` notes what the table held for
\* the presented key.
SelectForUpdate(p) ==
    /\ req[p].pc = "select"
    /\ IF req[p].x_api_key = "registered" /\ where_clause(key)
       THEN /\ lock = NoLock
            /\ lock' = with_for_update(p)
            /\ req' = [ req EXCEPT ![p] = [ pc |-> "locked", now |-> @.now,
                                            rec |-> key,
                                            row |-> row_state(@.x_api_key),
                                            resp |-> NoResponse ] ]
       ELSE /\ req' = [ req EXCEPT ![p] = [ pc |-> "done",
                                            row |-> row_state(@.x_api_key),
                                            resp |-> InvalidKeyResponse ] ]
            /\ UNCHANGED lock
    /\ UNCHANGED << dataVars, engineVars, auditVars, webVars,
                    key, now, admin, adminOps, start, disturbed >>

\* the row lock after db.commit(), db.rollback() or db.close() of the
\* session of request p
release_never(l, p) == l

release(l, p) == IF l = p THEN NoLock ELSE l

\* dispatch from the expiry check to the commit (or to the error response).
\* `window_due` notes whether the monthly window of the loaded record was
\* over when the quota was compared.  A statement or the commit may raise:
\* `except Exception: raise` and `finally: await db.close()`.
Admit(p) ==
    /\ req[p].pc = "locked"
    /\ \E raised \in BOOLEAN :
       LET rec == req[p].rec
           q   == check_quota(rec)
       IN  IF raised
           THEN /\ req' = [ req EXCEPT ![p] = [ pc |-> "done",
                                                row |-> @.row,
                                                resp |-> [ status |-> 500 ] ] ]
                /\ UNCHANGED << key, disturbed >>
           ELSE IF rec.expires_at # NULL /\ req[p].now > rec.expires_at
           THEN /\ req' = [ req EXCEPT ![p] = [ pc |-> "done",
                                                row |-> @.row,
                                                resp |-> ExpiredKeyResponse ] ]
                /\ UNCHANGED << key, disturbed >>
           ELSE IF ~q.has_quota
           THEN /\ req' = [ req EXCEPT ![p] =
                      [ pc   |-> "done",
                        row  |-> @.row,
                        window_due |-> needs_reset(rec, now),
                        resp |-> [ status    |-> 429,
                                   limit     |-> q.monthly_quota,
                                   remaining |-> 0,
                                   reset     |-> reset_timestamp(rec) ] ] ]
                /\ UNCHANGED << key, disturbed >>
           ELSE /\ key' = track_usage(rec, key, now)
                /\ disturbed' = (disturbed \/ needs_reset(rec, now))
                /\ req' = [ req EXCEPT ![p] =
                      [ pc     |-> "handler",
                        row    |-> @.row,
                        window_due |-> needs_reset(rec, now),
                        stored |-> [ monthly_quota |-> key'.monthly_quota,
                                     requests_this_month |->
                                         key'.requests_this_month ],
                        resp   |-> [ status    |-> 200,
                                     limit     |-> rec.monthly_quota,
                                     remaining |->
                                        IF rec.monthly_quota # NULL
                                        THEN Max0(rec.monthly_quota
                                               - (rec.requests_this_month + 1))
                                        ELSE NULL,
                                     reset     |->
                                        IF rec.monthly_quota # NULL
                                        THEN reset_timestamp(rec)
                                        ELSE NULL ] ] ]
    /\ lock' = release(lock, p)
    /\ UNCHANGED << dataVars, engineVars, auditVars, webVars,
                    now, admin, adminOps, start >>

\* call_next: the route handler runs and the response goes out with the
\* quota headers
Handler(p) ==
    /\ req[p].pc = "handler"
    /\ req' = [ req EXCEPT ![p] = [ pc |-> "done", row |-> @.row,
                                    resp |-> [ status |-> 200 ] ] ]
    /\ UNCHANGED << dataVars, engineVars, auditVars, webVars,
                    key, now, lock, admin, adminOps, start, disturbed >>

-----------------------------------------------------------------------------
(* app/api/admin_api_keys.py *)

\* upgrade_plan: the SELECT that loads the record
UpgradeRead ==
    /\ admin.pc = "idle"
    /\ adminOps < MaxAdminOps
    /\ \E new_plan \in PlanNames :
          admin' = [ pc |-> "upgrade", rec |-> key, new_plan |-> new_plan ]
    /\ adminOps' = adminOps + 1
    /\ UNCHANGED << dataVars, engineVars, auditVars, webVars,
                    key, now, lock, req, start, disturbed >>

\* upgrade_plan: the commit; its UPDATE waits for the row lock
UpgradeCommit ==
    /\ admin.pc = "upgrade"
    /\ lock = NoLock
    /\ key' = upgrade_plan_flush(admin.rec, key, admin.new_plan, now)
    /\ admin' = [ pc |-> "idle" ]
    /\ disturbed' = TRUE
    /\ UNCHANGED << dataVars, engineVars, auditVars, webVars, now,
                    lock, req, adminOps, start >>

\* reset_quota
ResetQuota ==
    /\ admin.pc = "idle"
    /\ adminOps < MaxAdminOps
    /\ lock = NoLock
    /\ key' = [ key EXCEPT !.requests_this_month = 0, !.last_reset_at = now ]
    /\ adminOps' = adminOps + 1
    /\ disturbed' = TRUE
    /\ UNCHANGED << dataVars, engineVars, auditVars, webVars, now,
                    lock, req, admin, start >>

\* revoke_api_key (APIKeyService.revoke_api_key)
Revoke ==
    /\ admin.pc = "idle"
    /\ adminOps < MaxAdminOps
    /\ lock = NoLock
    /\ key' = [ key EXCEPT !.is_revoked = TRUE ]
    /\ adminOps' = adminOps + 1
    /\ disturbed' = TRUE
    /\ UNCHANGED << dataVars, engineVars, auditVars, webVars, now,
                    lock, req, admin, start >>

\* reactivate_api_key
Reactivate ==
    /\ admin.pc = "idle"
    /\ adminOps < MaxAdminOps
    /\ lock = NoLock
    /\ key.is_revoked
    /\ key' = [ key EXCEPT !.is_revoked = FALSE, !.is_active = TRUE ]
    /\ adminOps' = adminOps + 1
    /\ disturbed' = TRUE
    /\ UNCHANGED << dataVars, engineVars, auditVars, webVars, now,
                    lock, req, admin, start >>

\* time passes
Tick ==
    /\ now + TickDays <= MaxNow
    /\ now' = now + TickDays
    /\ UNCHANGED << dataVars, engineVars, auditVars, webVars,
                    key, lock, req, admin, adminOps, start, disturbed >>

NextQuota ==
    \/ \E p \in Reqs : Dispatch(p)
    \/ \E p \in Reqs : SelectForUpdate(p)
    \/ \E p \in Reqs : Admit(p)
    \/ \E p \in Reqs : Handler(p)
    \/ UpgradeRead
    \/ UpgradeCommit
    \/ ResetQuota
    \/ Revoke
    \/ Reactivate
    \/ Tick

-----------------------------------------------------------------------------
(* app/services/audit.py, app/models/database.py *)

Gens == 1 .. NumReports

\* GeoJSONPolygon.model_dump(): the polygons a client may send, a ring and
\* the same ring with one coordinate changed
Polygons ==
    { [ type |-> "Polygon", coordinates |-> << x >> ] :
        x \in { "ring", "mutated_ring" } }

\* generate_report_code (audit.py and pdf_generator.py): "GG-", the timestamp
\* to the second and 4 random characters.  The codes a call at clock n may
\* return.
generate_report_code(n) ==
    { [ timestamp |-> n, random |-> x ] : x \in 1 .. NumRandomParts }

NoCode == [ timestamp |-> NULL, random |-> NULL ]

\* len("GG-") + len("YYYYMMDDHHMMSS") + len("-") + len("XXXX")
REPORT_CODE_LEN == 3 + 14 + 1 + 4

\* report_code = Column(String(20), unique=True, nullable=False)
REPORT_CODE_COLUMN_LEN == 20

\* settings.VALIDATION_EXPIRY_DAYS
VALIDATION_EXPIRY_DAYS == 90

\* `attempts < 10` and `attempts >= 10` in record_validation_report
MAX_CODE_ATTEMPTS == 10

\* hash_geojson: SHA-256 of json.dumps(geojson, sort_keys=True); the digest
\* stands for the serialisation it was computed from (keys in sorted order)
hash_geojson(g) ==
    << << "coordinates", g.coordinates >>, << "type", g.type >> >>

\* the verdict validate_plot returns for a polygon (reference data fixed)
validation_status(g) ==
    IF g.coordinates[1] = "ring" THEN "approved" ELSE "rejected"

\* AuditService._code_exists
_code_exists(code) == \E r \in reports : r.report_code = code

NoReport == [ report_code |-> NoCode ]

\* AuditService.get_report_by_code
get_report_by_code(code) ==
    IF _code_exists(code)
    THEN CHOOSE r \in reports : r.report_code = code
    ELSE NoReport

\* the ValidationReport row built by record_validation_report; its primary
\* key `id` is drawn per row, here the number of the request
ValidationReport(id, code, g, n) ==
    [ id            |-> id,
      report_code   |-> code,
      geometry_hash |-> hash_geojson(g),
      status        |-> validation_status(g),
      created_at    |-> n,
      expires_at    |-> n + VALIDATION_EXPIRY_DAYS ]

commit_error_no_unique(row) ==
    IF varchar_enforced /\ REPORT_CODE_LEN > REPORT_CODE_COLUMN_LEN
    THEN "DataError"
    ELSE "none"

\* the commit of the INSERT: the error the store raises, "none" if it stores
\* the row
commit_error(row) ==
    IF varchar_enforced /\ REPORT_CODE_LEN > REPORT_CODE_COLUMN_LEN
    THEN "DataError"
    ELSE IF _code_exists(row.report_code) THEN "IntegrityError"
    ELSE "none"

\* AuditService.verify_report
verify_report(code, g, n) ==
    LET report == get_report_by_code(code)
    IN  IF report = NoReport
        THEN [ valid |-> FALSE, error |-> "Laudo não encontrado" ]
        ELSE IF n > report.expires_at
        THEN [ valid |-> FALSE, error |-> "Laudo expirado" ]
        ELSE IF hash_geojson(g) # report.geometry_hash
        THEN [ valid |-> FALSE,
               error |-> "Geometria não corresponde ao laudo" ]
        ELSE [ valid |-> TRUE, error |-> "" ]

\* GET /reports/verify/{report_code}
public_verify_report(code) ==
    IF get_report_by_code(code) = NoReport
    THEN [ status |-> 404, valid |-> FALSE ]
    ELSE [ status |-> 200, valid |-> TRUE ]

-----------------------------------------------------------------------------
(* app/api/reports.py *)

NoVerification == [ endpoint |-> "none" ]

InitAudit ==
    /\ reports = { }
    /\ varchar_enforced \in BOOLEAN
    /\ rep = [ g \in Gens |-> [ pc |-> "idle" ] ]
    /\ verified = NoVerification
    /\ now = 0

\* generate_quick_report up to the PDF: DueDiligenceReportGenerator.generate
\* draws the report code and prints it in the PDF and its QR payload; an
\* exception there ends the request with 500.  Requests are numbered in the
\* order they arrive.
GeneratePdf(g) ==
    /\ rep[g].pc = "idle"
    /\ \A h \in Gens : h < g => rep[h].pc # "idle"
    /\ \E geom \in Polygons, ok \in BOOLEAN :
          IF ok
          THEN \E code \in generate_report_code(now) :
                  rep' = [ rep EXCEPT ![g] =
                             [ pc                |-> "audit",
                               geometry          |-> geom,
                               pdf_code          |-> code,
                               final_report_code |-> code,
                               attempts          |-> 0 ] ]
          ELSE rep' = [ rep EXCEPT ![g] =
                          [ pc |-> "done", resp |-> [ status |-> 500 ] ] ]
    /\ UNCHANGED << dataVars, engineVars,
                    quotaVars, webVars, reports, varchar_enforced,
                    verified >>

\* generate_quick_report after the try block around record_validation_report
\* to its StreamingResponse: `report_code`, sent as X-Report-Code, is the code
\* of the stored record, or still the code of the PDF when the recording
\* raised (`except Exception as audit_error` logs and continues)
StreamingResponse(r, stored, report_code, audit_error) ==
    [ pc          |-> "done",
      geometry    |-> r.geometry,
      pdf_code    |-> r.pdf_code,
      stored      |-> stored,
      audit_error |-> audit_error,
      resp        |-> [ status |-> 200, X_Report_Code |-> report_code ] ]

\* record_validation_report: one evaluation of
\* `while await self._code_exists(final_report_code) and attempts < 10`,
\* its body, and the `if attempts >= 10: raise` that follows the loop
CodeExistsLoop(g) ==
    /\ rep[g].pc = "audit"
    /\ IF _code_exists(rep[g].final_report_code)
          /\ rep[g].attempts < MAX_CODE_ATTEMPTS
       THEN \E code \in generate_report_code(now) :
               rep' = [ rep EXCEPT ![g].final_report_code = code,
                                   ![g].attempts = @ + 1 ]
       ELSE IF rep[g].attempts >= MAX_CODE_ATTEMPTS
       THEN rep' = [ rep EXCEPT ![g] =
                       StreamingResponse(@, NoCode, @.pdf_code, "ValueError") ]
       ELSE rep' = [ rep EXCEPT ![g].pc = "insert" ]
    /\ UNCHANGED << dataVars, engineVars,
                    quotaVars, webVars, reports, varchar_enforced,
                    verified >>

\* record_validation_report: `self.db.add(report)` and the commit; then
\* `report_code = audit_record.report_code` in generate_quick_report and the
\* response
InsertReport(g) ==
    /\ rep[g].pc = "insert"
    /\ LET row == ValidationReport(g, rep[g].final_report_code,
                                   rep[g].geometry, now)
           err == commit_error(row)
       IN  IF err = "none"
           THEN /\ reports' = reports \cup { row }
                /\ rep' = [ rep EXCEPT ![g] =
                              StreamingResponse(@, row.report_code,
                                                row.report_code, "none") ]
           ELSE /\ rep' = [ rep EXCEPT ![g] =
                              StreamingResponse(@, NoCode, @.pdf_code, err) ]
                /\ UNCHANGED reports
    /\ UNCHANGED << dataVars, engineVars, quotaVars,
                    webVars, varchar_enforced, verified >>

\* the codes a client holds: the X-Report-Code values it was sent
DeliveredCodes ==
    { rep[g].resp.X_Report_Code :
        g \in { h \in Gens : rep[h].pc = "done" /\ rep[h].resp.status = 200 } }

\* GET /reports/verify/{report_code}
VerifyReport ==
    /\ \E code \in DeliveredCodes :
          verified' = [ endpoint |-> "verify",
                        result |-> public_verify_report(code) ]
    /\ UNCHANGED << dataVars, engineVars, quotaVars, webVars,
                    reports, varchar_enforced, rep >>

\* POST /reports/verify/{report_code}/geometry
VerifyReportGeometry ==
    /\ \E code \in DeliveredCodes, geom \in Polygons :
          verified' = [ endpoint |-> "verify_geometry",
                        result |-> verify_report(code, geom, now) ]
    /\ UNCHANGED << dataVars, engineVars, quotaVars, webVars,
                    reports, varchar_enforced, rep >>

\* time passes; a request does not last AuditTickDays days
AuditTick ==
    /\ \A g \in Gens : rep[g].pc \in { "idle", "done" }
    /\ now + AuditTickDays <= MaxAuditNow
    /\ now' = now + AuditTickDays
    /\ UNCHANGED << dataVars, engineVars, quotaRows, auditVars, webVars >>

NextAudit ==
    \/ \E g \in Gens : GeneratePdf(g)
    \/ \E g \in Gens : CodeExistsLoop(g)
    \/ \E g \in Gens : InsertReport(g)
    \/ VerifyReport
    \/ VerifyReportGeometry
    \/ AuditTick

-----------------------------------------------------------------------------
(* app/core/rate_limit.py: InMemoryRateLimiter *)

Ips == 1 .. NumIps

\* the client ids the call sites build: "login:<ip>", "register:<ip>" in
\* auth.py, "key:<prefix>" and "ip:<addr>" in RateLimitMiddleware
ClientIds ==
    [ kind : { "login", "register", "ip" }, who : Ips ]
        \cup { [ kind |-> "key", who |-> 0 ] }

\* self._cleanup_interval
CLEANUP_INTERVAL == 60

\* `window = 60` in _cleanup_all
CLEANUP_WINDOW == 60

\* [t for t in timestamps if t > cutoff]
newer_than(timestamps, cutoff) ==
    SelectSeq(timestamps, LAMBDA t : t > cutoff)

\* InMemoryRateLimiter._cleanup_all (a client without entries has no key)
_cleanup_all(requests, n) ==
    [ c \in DOMAIN requests |->
        newer_than(requests[c], n - CLEANUP_WINDOW) ]

\* InMemoryRateLimiter._maybe_cleanup: the limiter state it leaves
_maybe_cleanup(requests, last_cleanup, n) ==
    IF n - last_cleanup > CLEANUP_INTERVAL
    THEN [ requests |-> _cleanup_all(requests, n), last_cleanup |-> n ]
    ELSE [ requests |-> requests, last_cleanup |-> last_cleanup ]

RECURSIVE MinOfSeq(_)
MinOfSeq(ts) ==
    IF Len(ts) = 1 THEN ts[1]
    ELSE LET m == MinOfSeq(Tail(ts))
         IN  IF ts[1] < m THEN ts[1] ELSE m

\* InMemoryRateLimiter.check: the RateLimitInfo it returns and the limiter
\* state it leaves
check(requests, last_cleanup, client_id, limit, window_seconds, n) ==
    LET cleaned == _maybe_cleanup(requests, last_cleanup, n)
        kept    == newer_than(cleaned.requests[client_id], n - window_seconds)
        current_count == Len(kept)
    IN  IF current_count >= limit
        THEN [ requests     |-> [ cleaned.requests EXCEPT ![client_id] = kept ],
               last_cleanup |-> cleaned.last_cleanup,
               info |-> [ allowed   |-> FALSE,
                          limit     |-> limit,
                          remaining |-> 0,
                          reset_at  |-> IF kept # << >>
                                        THEN MinOfSeq(kept) + window_seconds
                                        ELSE n + window_seconds ] ]
        ELSE [ requests     |-> [ cleaned.requests EXCEPT
                                    ![client_id] = Append(kept, n) ],
               last_cleanup |-> cleaned.last_cleanup,
               info |-> [ allowed   |-> TRUE,
                          limit     |-> limit,
                          remaining |-> limit - current_count - 1,
                          reset_at  |-> n + window_seconds ] ]

\* a call of rate_limiter.check by a call site: the limiter state after it
\* and the log of the calls it allowed
limiter_after(client_id, limit, window_seconds) ==
    LET r == check(_requests, _last_cleanup, client_id, limit,
                   window_seconds, time)
    IN  /\ _requests' = r.requests
        /\ _last_cleanup' = r.last_cleanup
        /\ granted' = IF r.info.allowed
                      THEN [ granted EXCEPT ![client_id] = Append(@, time) ]
                      ELSE granted

InitLimiter ==
    /\ _requests = [ c \in ClientIds |-> << >> ]
    /\ _last_cleanup = 0
    /\ time = 0
    /\ granted = [ c \in ClientIds |-> << >> ]

\* time passes
TickSeconds ==
    /\ time + RateTickSeconds <= MaxSeconds
    /\ time' = time + RateTickSeconds
    /\ UNCHANGED << dataVars, engineVars, quotaVars, auditVars, _requests,
                    _last_cleanup, granted, authVars, pipeVars >>

-----------------------------------------------------------------------------
(* app/api/auth.py *)

\* limit and window_seconds of the rate_limiter.check call in login
LOGIN_LIMIT == 5

LOGIN_WINDOW == 300

\* limit and window_seconds of the rate_limiter.check call in register
REGISTER_LIMIT == 3

REGISTER_WINDOW == 86400

Regs == 1 .. NumRegs

Emails == 1 .. NumEmails

InitAuth ==
    /\ emails = { }
    /\ regs = [ r \in Regs |-> [ pc |-> "idle" ] ]
    /\ logins = 0

\* POST /auth/login: the rate-limit check, then the credentials
login ==
    /\ logins < MaxLogins
    /\ logins' = logins + 1
    /\ \E ip \in Ips :
          limiter_after([ kind |-> "login", who |-> ip ],
                        LOGIN_LIMIT, LOGIN_WINDOW)
    /\ UNCHANGED << dataVars, engineVars, quotaVars, auditVars, pipeVars,
                    time, emails, regs >>

\* the SELECT of register: the active, unrevoked rows of an e-mail
existing(email) ==
    { k \in emails : k.client_email = email /\ k.is_active /\ ~k.is_revoked }

\* POST /auth/register up to the SELECT of an existing key: 429 from the
\* rate limit, 409 when the e-mail has an active key
RegisterSelect(r) ==
    /\ regs[r].pc = "idle"
    /\ \E ip \in Ips, email \in Emails :
          LET c    == [ kind |-> "register", who |-> ip ]
              info == check(_requests, _last_cleanup, c, REGISTER_LIMIT,
                            REGISTER_WINDOW, time).info
          IN  /\ limiter_after(c, REGISTER_LIMIT, REGISTER_WINDOW)
              /\ regs' = [ regs EXCEPT ![r] =
                    IF ~info.allowed
                    THEN [ pc |-> "done", status |-> 429, email |-> email ]
                    ELSE IF existing(email) # { }
                    THEN [ pc |-> "done", status |-> 409, email |-> email ]
                    ELSE [ pc |-> "create", email |-> email ] ]
    /\ UNCHANGED << dataVars, engineVars, quotaVars, auditVars, pipeVars,
                    time, emails, logins >>

\* register: APIKeyService.create_api_key adds the row and commits
RegisterCreate(r) ==
    /\ regs[r].pc = "create"
    /\ emails' = emails \cup { [ id |-> r, client_email |-> regs[r].email,
                                 is_active |-> TRUE, is_revoked |-> FALSE ] }
    /\ regs' = [ regs EXCEPT ![r] = [ pc |-> "done", status |-> 200,
                                      email |-> @.email ] ]
    /\ UNCHANGED << dataVars, engineVars,
                    quotaVars, auditVars, limiterVars, pipeVars,
                    logins >>

NextAuth ==
    \/ login
    \/ \E r \in Regs : RegisterSelect(r)
    \/ \E r \in Regs : RegisterCreate(r)
    \/ TickSeconds

-----------------------------------------------------------------------------
(* app/main.py: the middleware chain built by create_app, outermost first:
   LimitUploadSizeMiddleware, RateLimitMiddleware, APIKeyTrackerMiddleware,
   RequestLoggingMiddleware, add_security_headers, CORSMiddleware, router *)

\* settings.MAX_UPLOAD_SIZE
MAX_UPLOAD_SIZE == 5 * 1024 * 1024

\* settings.RATE_LIMIT_AUTHENTICATED and settings.RATE_LIMIT_ANONYMOUS
RATE_LIMIT_AUTHENTICATED == 100

RATE_LIMIT_ANONYMOUS == 20

\* window_seconds of the rate_limiter.check call in RateLimitMiddleware
RATE_LIMIT_WINDOW == 60

\* settings.API_KEY is None
API_KEY_UNSET == "unset"

\* the request carries no x-api-key header
NoHeader == "none"

Methods == { "GET", "POST", "OPTIONS" }

\* request.url.path, as its segments
Paths ==
    { << "health" >>,
      << "api", "v1", "auth", "login" >>,
      << "api", "v1", "validations", "quick" >>,
      << "api", "v1", "validations" >> }

\* the Content-Length header: absent, or a number around the maximum
ContentLengths ==
    { NULL, MAX_UPLOAD_SIZE - 1, MAX_UPLOAD_SIZE, MAX_UPLOAD_SIZE + 1 }

\* the x-api-key header: absent, the key of the api_keys row, a key in no
\* row, or the key of the static configuration
ApiKeyHeaders == { NoHeader, "registered", "unregistered", "static" }

\* the exact-match set of LimitUploadSizeMiddleware and
\* RateLimitMiddleware.EXEMPT_PATHS
EXEMPT_PATHS ==
    { << "health" >>, << "health", "detailed" >>, << "docs" >>,
      << "redoc" >>, << "openapi.json" >>, << >> }

\* APIKeyTrackerMiddleware.PUBLIC_PATHS
PUBLIC_PATHS ==
    { << >>, << "health" >>, << "health", "detailed" >>, << "metrics" >>,
      << "docs" >>, << "redoc" >>, << "openapi.json" >>,
      << "api", "v1", "reports", "verify" >>,
      << "api", "v1", "metadata", "data-freshness" >>,
      << "api", "v1", "validations", "quick" >> }

\* path.startswith(prefix) for a prefix that ends in "/"
startswith_dir(path, dir) ==
    /\ Len(path) > Len(dir)
    /\ SubSeq(path, 1, Len(dir)) = dir

\* path.startswith(prefix) for a prefix that is a whole first segment
startswith(path, prefix) ==
    /\ Len(path) >= Len(prefix)
    /\ SubSeq(path, 1, Len(prefix)) = prefix

\* the methods LimitUploadSizeMiddleware lets through unexamined
methods_without_body == { "GET", "HEAD", "OPTIONS" }

\* the paths RateLimitMiddleware.dispatch lets through unexamined
rate_exempt(path) ==
    \/ path \in EXEMPT_PATHS
    \/ startswith_dir(path, << "api", "v1", "admin" >>)
    \/ startswith_dir(path, << "api", "v1", "auth" >>)

\* the paths APIKeyTrackerMiddleware.dispatch lets through unexamined
admission_public(path) ==
    \/ path \in PUBLIC_PATHS
    \/ startswith(path, << "docs" >>)
    \/ startswith(path, << "redoc" >>)
    \/ startswith_dir(path, << "api", "v1", "auth" >>)
    \/ startswith_dir(path, << "api", "v1", "admin" >>)
    \/ startswith_dir(path, << "api", "v1", "reports", "verify" >>)

\* RateLimitMiddleware._get_client_id
_get_client_id(request) ==
    IF /\ request.x_api_key # NoHeader
       /\ settings.API_KEY # API_KEY_UNSET
       /\ request.x_api_key = settings.API_KEY
    THEN [ client_id |-> [ kind |-> "key", who |-> 0 ],
           is_authenticated |-> TRUE ]
    ELSE [ client_id |-> [ kind |-> "ip", who |-> request.ip ],
           is_authenticated |-> FALSE ]

\* response headers: a function from header names to values
NoHeaders == << >>

\* response.headers[name] = value for every pair of `new`
set_headers(headers, new) == new @@ headers

\* the JSONResponse of LimitUploadSizeMiddleware
PayloadTooLarge ==
    [ status  |-> 413,
      content |-> "Payload too large.",
      headers |-> NoHeaders ]

\* rate_headers of RateLimitMiddleware.dispatch
rate_headers(info) ==
    [ X_RateLimit_Limit     |-> info.limit,
      X_RateLimit_Remaining |-> info.remaining,
      X_RateLimit_Reset     |-> info.reset_at ]

\* the JSONResponse of RateLimitMiddleware.dispatch when the check denies
RateLimitExceeded(info, n) ==
    [ status  |-> 429,
      content |-> "Rate limit exceeded.",
      headers |-> set_headers(
                     set_headers(rate_headers(info), CORS_HEADERS),
                     [ Retry_After |-> info.reset_at - n ]) ]

\* the Response of APIKeyTrackerMiddleware.dispatch without x-api-key
MissingKeyResponse ==
    [ status     |-> 403,
      content    |-> "API Key nao fornecida. Use o header x-api-key.",
      media_type |-> "application/json",
      headers    |-> CORS_HEADERS ]

\* the Response of APIKeyTrackerMiddleware.dispatch for a used-up quota
QuotaExceededResponse(rec) ==
    [ status     |-> 429,
      content    |-> "Quota mensal excedida.",
      media_type |-> "application/json",
      headers    |-> set_headers(CORS_HEADERS,
                        [ X_RateLimit_Limit     |-> rec.monthly_quota,
                          X_RateLimit_Remaining |-> 0,
                          X_RateLimit_Reset     |-> reset_timestamp(rec) ]) ]

\* the JSONResponse of global_exception_handler
InternalServerError ==
    [ status  |-> 500,
      content |-> "Erro interno do servidor",
      headers |-> CORS_HEADERS ]

\* the headers add_security_headers sets
SECURITY_HEADERS ==
    [ X_Frame_Options        |-> "DENY",
      X_Content_Type_Options |-> "nosniff" ]

\* the response of the router after CORSMiddleware (which answers a
\* preflight itself) and add_security_headers
routed_response ==
    [ status  |-> 200,
      content |-> "OK",
      headers |-> set_headers([ Access_Control_Allow_Origin |-> "*" ],
                              SECURITY_HEADERS) ]

\* the quota headers APIKeyTrackerMiddleware.dispatch sets after call_next
quota_headers(rec) ==
    IF rec.monthly_quota # NULL
    THEN [ X_RateLimit_Limit     |-> rec.monthly_quota,
           X_RateLimit_Remaining |->
               Max0(rec.monthly_quota - (rec.requests_this_month + 1)),
           X_RateLimit_Reset     |-> reset_timestamp(rec) ]
    ELSE NoHeaders

NoRate == [ ran |-> FALSE ]

NoAdmission == [ ran |-> FALSE, accepted |-> FALSE ]

\* the initial state of the chain: the limiter may have served the address
\* before, and the api_keys row is a key of plan free, unused or used up,
\* revoked or not
InitPipeline ==
    /\ pipe = [ pc |-> "idle", served |-> 0 ]
    /\ \E k \in { API_KEY_UNSET, "static" } : settings = [ API_KEY |-> k ]
    /\ \E before \in { 0, RATE_LIMIT_ANONYMOUS - 1 } :
          /\ _requests = [ c \in ClientIds |->
                             IF c.kind = "ip"
                             THEN [ i \in 1 .. before |-> 0 ] ELSE << >> ]
          /\ granted = _requests
    /\ _last_cleanup = 0
    /\ time = 0
    /\ \E used \in { 0, PLANS.free }, revoked \in BOOLEAN :
          key = [ plan |-> "free", monthly_quota |-> PLANS.free,
                  requests_this_month |-> used, total_requests |-> used,
                  last_reset_at |-> IF used = 0 THEN NULL ELSE 0,
                  is_active |-> TRUE, is_revoked |-> revoked,
                  expires_at |-> NULL ]
    /\ now = 0
    /\ lock = NoLock
    /\ req = [ p \in Reqs |-> IdleReq ]
    /\ admin = [ pc |-> "idle" ]
    /\ adminOps = 0
    /\ start = [ monthly_quota |-> key.monthly_quota,
                 requests_this_month |-> key.requests_this_month ]
    /\ disturbed = FALSE

\* a request arrives
Arrive ==
    /\ pipe.pc \in { "idle", "done" }
    /\ pipe.served < MaxPipelineRequests
    /\ \E method \in Methods, path \in Paths, length \in ContentLengths,
          header \in ApiKeyHeaders, ip \in Ips :
          pipe' = [ pc      |-> "size",
                    served  |-> pipe.served,
                    request |-> [ method |-> method, path |-> path,
                                  content_length |-> length,
                                  x_api_key |-> header, ip |-> ip ],
                    stages  |-> << >>,
                    rate    |-> NoRate,
                    admission |-> NoAdmission ]
    /\ UNCHANGED << dataVars, engineVars,
                    quotaVars, auditVars, limiterVars, authVars,
                    settings >>

\* dispatch of a middleware is entered: `stages` lists the middlewares in
\* the order they were entered
enter(stage) == [ pipe EXCEPT !.stages = Append(@, stage) ]

\* the answer of a stage that ends the request
respond(entered, response) ==
    [ pc |-> "done", served |-> entered.served + 1,
      request |-> entered.request, stages |-> entered.stages,
      rate |-> entered.rate, admission |-> entered.admission,
      resp |-> response ]

\* LimitUploadSizeMiddleware.dispatch up to call_next
SizeLimit ==
    /\ pipe.pc = "size"
    /\ LET request == pipe.request
       IN  IF \/ request.path \in EXEMPT_PATHS
              \/ request.method \in methods_without_body
              \/ request.content_length = NULL
              \/ ~(request.content_length > MAX_UPLOAD_SIZE)
           THEN pipe' = [ enter("size") EXCEPT !.pc = "rate" ]
           ELSE pipe' = respond(enter("size"), PayloadTooLarge)
    /\ UNCHANGED << dataVars, engineVars,
                    quotaVars, auditVars, limiterVars, authVars,
                    settings >>

\* RateLimitMiddleware.dispatch up to call_next
RateLimit ==
    /\ pipe.pc = "rate"
    /\ LET request == pipe.request
           id      == _get_client_id(request)
           limit   == IF id.is_authenticated THEN RATE_LIMIT_AUTHENTICATED
                      ELSE RATE_LIMIT_ANONYMOUS
           info    == check(_requests, _last_cleanup, id.client_id, limit,
                            RATE_LIMIT_WINDOW, time).info
           ran     == [ ran |-> TRUE, client_id |-> id.client_id,
                        limit |-> limit, info |-> info ]
       IN  IF rate_exempt(request.path)
           THEN /\ pipe' = [ enter("rate_limit") EXCEPT !.pc = "admission" ]
                /\ UNCHANGED << _requests, _last_cleanup, granted >>
           ELSE /\ limiter_after(id.client_id, limit, RATE_LIMIT_WINDOW)
                /\ pipe' = IF info.allowed
                           THEN [ enter("rate_limit") EXCEPT
                                    !.pc = "admission", !.rate = ran ]
                           ELSE [ respond(enter("rate_limit"),
                                          RateLimitExceeded(info, time))
                                    EXCEPT !.rate = ran ]
    /\ UNCHANGED << dataVars, engineVars, quotaVars, auditVars, authVars, time,
                    settings >>

\* APIKeyTrackerMiddleware.dispatch up to call_next, for a request that is
\* alone with the row
Admission ==
    /\ pipe.pc = "admission"
    /\ LET request == pipe.request
           ran(accepted) == [ ran |-> TRUE, accepted |-> accepted ]
           reject(response) ==
               [ respond(enter("admission"), response)
                   EXCEPT !.admission = ran(FALSE) ]
       IN  IF \/ request.method = "OPTIONS"
              \/ admission_public(request.path)
           THEN /\ pipe' = [ enter("admission") EXCEPT !.pc = "handler" ]
                /\ UNCHANGED key
           ELSE IF request.x_api_key = NoHeader
           THEN /\ pipe' = reject(MissingKeyResponse)
                /\ UNCHANGED key
           ELSE IF ~(request.x_api_key = "registered" /\ where_clause(key))
           THEN /\ pipe' = reject(InvalidKeyResponse)
                /\ UNCHANGED key
           ELSE IF key.expires_at # NULL /\ now > key.expires_at
           THEN /\ pipe' = reject(ExpiredKeyResponse)
                /\ UNCHANGED key
           ELSE IF ~check_quota(key).has_quota
           THEN /\ pipe' = reject(QuotaExceededResponse(key))
                /\ UNCHANGED key
           ELSE /\ key' = track_usage(key, key, now)
                /\ pipe' = [ enter("admission") EXCEPT
                               !.pc = "handler",
                               !.admission =
                                   [ ran |-> TRUE, accepted |-> TRUE,
                                     headers |-> quota_headers(key) ] ]
    /\ UNCHANGED << dataVars, engineVars,
                    auditVars, limiterVars, authVars, settings,
                    now, lock, req, admin, adminOps, start, disturbed >>

\* call_next of the inner layers (RequestLoggingMiddleware, which binds the
\* request id, add_security_headers, CORSMiddleware and the route handler,
\* which may raise) and the way back out through the middlewares
Route ==
    /\ pipe.pc = "handler"
    /\ \E raised \in BOOLEAN :
          LET inner == routed_response
              entered ==
                  [ pipe EXCEPT !.stages = @ \o << "logging", "handler" >> ]
              after_admission ==
                  IF pipe.admission.ran /\ pipe.admission.accepted
                  THEN [ inner EXCEPT !.headers =
                            set_headers(@, pipe.admission.headers) ]
                  ELSE inner
              after_rate ==
                  IF pipe.rate.ran
                  THEN [ after_admission EXCEPT !.headers =
                            set_headers(@, rate_headers(pipe.rate.info)) ]
                  ELSE after_admission
          IN  IF raised /\ pipe.request.method # "OPTIONS"
              THEN pipe' = respond(entered, InternalServerError)
              ELSE /\ ~raised
                   /\ pipe' = respond(entered, after_rate)
    /\ UNCHANGED << dataVars, engineVars,
                    quotaVars, auditVars, limiterVars, authVars,
                    settings >>

NextPipeline ==
    \/ Arrive
    \/ SizeLimit
    \/ RateLimit
    \/ Admission
    \/ Route
    \/ TickSeconds

-----------------------------------------------------------------------------
(* app/services/dataset_service.py, app/models/dataset.py *)

Writers == 1 .. NumWriters

Readers == 1 .. NumReaders

LayerTypes == { "mapbiomas", "prodes" }

Versions == 1 .. MaxVersion

\* CACHE_TTL_SECONDS
CACHE_TTL_SECONDS == 300

\* the value None of _versions_cache
None == [ none |-> TRUE ]

\* a dataset_versions row; UniqueConstraint('layer_type', 'version') makes
\* the pair its key, and no constraint involves is_active
DatasetVersion(layer_type, version, is_active) ==
    [ layer_type |-> layer_type, version |-> version,
      is_active |-> is_active ]

row_key(row) == << row.layer_type, row.version >>

\* the rows a statement sees under READ COMMITTED: the committed ones
\* `.where(DatasetVersion.layer_type == layer_type)
\*  .where(DatasetVersion.is_active == True)`
active_of(layer_type) ==
    { row \in dataset_versions :
        row.layer_type = layer_type /\ row.is_active }

\* `.where(DatasetVersion.is_active == True)`
active_rows == { row \in dataset_versions : row.is_active }

\* `for row in result.scalars(): versions[row.layer_type] = row.to_dict()`
\* over rows ordered by layer_type only: of several rows of one layer the
\* last one stays, and their order is the store's choice.  The dicts the
\* loop may build from `rows`.
versions_of(rows) ==
    { f \in [ { row.layer_type : row \in rows } -> Versions ] :
        \A l \in DOMAIN f : DatasetVersion(l, f[l], TRUE) \in rows }

\* a register_new_version call holds the row locks of the rows its UPDATE
\* has changed until its transaction ends
in_transaction(w) == writers[w].pc \in { "insert", "flushed", "returned" }

locked_by_other(w, k) ==
    \E v \in Writers \ { w } : in_transaction(v) /\ k \in writers[v].archived

\* another transaction holds an uncommitted row with the key
inserted_by_other(w, k) ==
    \E v \in Writers \ { w } :
       /\ writers[v].pc \in { "flushed", "returned" }
       /\ << writers[v].layer_type, writers[v].version >> = k

InitRegistry ==
    /\ \E ls \in SUBSET LayerTypes :
          dataset_versions = { DatasetVersion(l, 1, TRUE) : l \in ls }
    /\ writers = [ w \in Writers |-> [ pc |-> "idle" ] ]
    /\ readers = [ r \in Readers |-> [ pc |-> "idle" ] ]
    /\ _versions_cache = None
    /\ _cache_timestamp = NULL
    /\ utcnow = 0

\* register_new_version(layer_type, version): the UPDATE is sent; its
\* snapshot fixes the rows it will visit.  Calls are numbered in the order
\* they start.
RegisterNewVersion(w, layer_type, version) ==
    /\ writers[w].pc = "idle"
    /\ \A v \in Writers : v < w => writers[v].pc # "idle"
    /\ writers' = [ writers EXCEPT ![w] =
                      [ pc         |-> "update",
                        layer_type |-> layer_type,
                        version    |-> version,
                        targets    |-> { row_key(row) :
                                         row \in active_of(layer_type) },
                        archived   |-> { } ] ]
    /\ UNCHANGED << engineVars, quotaVars, auditVars, webVars, redisVars,
                    dataset_versions, readers, _versions_cache,
                    _cache_timestamp, utcnow >>

\* the UPDATE completes: it waits for the row locks of the rows of its
\* snapshot, evaluates its WHERE again on the committed version of each and
\* sets is_active = False on those that still match
ArchivePrevious(w) ==
    /\ writers[w].pc = "update"
    /\ \A k \in writers[w].targets : ~locked_by_other(w, k)
    /\ writers' = [ writers EXCEPT
                      ![w].pc = "insert",
                      ![w].targets = { },
                      ![w].archived =
                          { k \in writers[w].targets :
                              DatasetVersion(k[1], k[2], TRUE)
                                  \in dataset_versions } ]
    /\ UNCHANGED << engineVars, quotaVars, auditVars, webVars, redisVars,
                    dataset_versions, readers, _versions_cache,
                    _cache_timestamp, utcnow >>

\* `self.db.add(new_version)` and `await self.db.flush()`: the INSERT waits
\* for a transaction that holds the same key; a committed row with the key
\* raises IntegrityError, which leaves the call (and rolls the savepoint
\* back) before the cache is touched
Flush(w) ==
    /\ writers[w].pc = "insert"
    /\ LET k == << writers[w].layer_type, writers[w].version >>
       IN  /\ ~inserted_by_other(w, k)
           /\ IF \E row \in dataset_versions : row_key(row) = k
              THEN writers' = [ writers EXCEPT ![w] = [ pc |-> "failed" ] ]
              ELSE writers' = [ writers EXCEPT ![w].pc = "flushed" ]
    /\ UNCHANGED << engineVars, quotaVars, auditVars, webVars, redisVars,
                    dataset_versions, readers, _versions_cache,
                    _cache_timestamp, utcnow >>

\* `_versions_cache = None` and the return
InvalidateCache(w) ==
    /\ writers[w].pc = "flushed"
    /\ writers' = [ writers EXCEPT ![w].pc = "returned" ]
    /\ _versions_cache' = None
    /\ UNCHANGED << engineVars, quotaVars, auditVars, webVars, redisVars,
                    dataset_versions, readers, _cache_timestamp, utcnow >>

\* the table after the transaction of call w is committed
committed(w) ==
    { IF row_key(row) \in writers[w].archived
      THEN DatasetVersion(row.layer_type, row.version, FALSE)
      ELSE row : row \in dataset_versions }
    \cup { DatasetVersion(writers[w].layer_type, writers[w].version, TRUE) }

\* the caller of register_new_version commits the session
Commit(w) ==
    /\ writers[w].pc = "returned"
    /\ dataset_versions' = committed(w)
    /\ writers' = [ writers EXCEPT ![w] = [ pc |-> "done" ] ]
    /\ UNCHANGED << engineVars, quotaVars, auditVars, webVars, redisVars,
                    readers, _versions_cache, _cache_timestamp, utcnow >>

\* `if _versions_cache is not None and _cache_timestamp is not None` and
\* `age < CACHE_TTL_SECONDS`
cache_hit(n) ==
    /\ _versions_cache # None
    /\ _cache_timestamp # NULL
    /\ n - _cache_timestamp < CACHE_TTL_SECONDS

\* get_active_versions up to its first await: `now` is read, and the cache
\* is returned on a hit.  Calls are numbered in the order they start.
GetActiveVersions(r) ==
    /\ readers[r].pc = "idle"
    /\ \A q \in Readers : q < r => readers[q].pc # "idle"
    /\ IF cache_hit(utcnow)
       THEN readers' = [ readers EXCEPT ![r] =
                           [ pc         |-> "done",
                             now        |-> utcnow,
                             versions   |-> _versions_cache,
                             from_cache |-> TRUE ] ]
       ELSE readers' = [ readers EXCEPT ![r] =
                           [ pc |-> "query", now |-> utcnow ] ]
    /\ UNCHANGED << engineVars, quotaVars, auditVars, webVars, redisVars,
                    dataset_versions, writers, _versions_cache,
                    _cache_timestamp, utcnow >>

\* the store executes the SELECT of get_active_versions
ExecuteSelect(r) ==
    /\ readers[r].pc = "query"
    /\ \E versions \in versions_of(active_rows) :
          readers' = [ readers EXCEPT ![r] =
                         [ pc       |-> "store",
                           now      |-> @.now,
                           versions |-> versions ] ]
    /\ UNCHANGED << engineVars, quotaVars, auditVars, webVars, redisVars,
                    dataset_versions, writers, _versions_cache,
                    _cache_timestamp, utcnow >>

\* get_active_versions resumes after `await self.db.execute(...)`:
\* `_versions_cache = versions`, `_cache_timestamp = now` and the return
UpdateCache(r) ==
    /\ readers[r].pc = "store"
    /\ _versions_cache' = readers[r].versions
    /\ _cache_timestamp' = readers[r].now
    /\ readers' = [ readers EXCEPT ![r] =
                      [ pc         |-> "done",
                        now        |-> @.now,
                        versions   |-> @.versions,
                        from_cache |-> FALSE ] ]
    /\ UNCHANGED << engineVars, quotaVars, auditVars, webVars, redisVars,
                    dataset_versions, writers, utcnow >>

\* time passes
RegistryTick ==
    /\ utcnow + RegistryTickSeconds <= MaxRegistrySeconds
    /\ utcnow' = utcnow + RegistryTickSeconds
    /\ UNCHANGED << engineVars, quotaVars, auditVars, webVars, redisVars,
                    dataset_versions, writers, readers, _versions_cache,
                    _cache_timestamp >>

NextRegistry ==
    \/ \E w \in Writers, layer_type \in LayerTypes, version \in Versions :
          RegisterNewVersion(w, layer_type, version)
    \/ \E w \in Writers : ArchivePrevious(w)
    \/ \E w \in Writers : Flush(w)
    \/ \E w \in Writers : InvalidateCache(w)
    \/ \E w \in Writers : Commit(w)
    \/ \E r \in Readers : GetActiveVersions(r)
    \/ \E r \in Readers : ExecuteSelect(r)
    \/ \E r \in Readers : UpdateCache(r)
    \/ RegistryTick

-----------------------------------------------------------------------------
(* app/services/validation_engine.py, app/services/audit.py: the reference
   data snapshot of a verdict and its audit record *)

\* "version": "legacy" of the descriptors counted from reference_layers
LEGACY == 0

\* GeoValidationEngine._load_reference_versions: the dicts it may return.
\* The active rows of dataset_versions, read without ORDER BY, are put in a
\* dict keyed by layer_type; without active rows the descriptors are counted
\* from reference_layers, which holds every layer.
_load_reference_versions ==
    IF active_rows # { }
    THEN versions_of(active_rows)
    ELSE { [ l \in LayerTypes |-> LEGACY ] }

\* the snapshot is read when a later registration is committed too
datasets_version_at_commit(validation_result) ==
    CHOOSE versions \in _load_reference_versions : TRUE

\* `datasets_version=validation_result.reference_data_version or {}`
datasets_version(validation_result) ==
    validation_result.reference_data_version

\* the ValidationReport row built by record_validation_report from a
\* verdict: ValidationReport with its column datasets_version
audit_record(id, code, g, n, validation_result) ==
    [ id               |-> id,
      report_code      |-> code,
      geometry_hash    |-> hash_geojson(g),
      status           |-> validation_status(g),
      datasets_version |-> datasets_version(validation_result),
      created_at       |-> n,
      expires_at       |-> n + VALIDATION_EXPIRY_DAYS ]

\* AuditService.reproduce_validation
reproduce_validation(code) ==
    LET report == get_report_by_code(code)
    IN  IF report = NoReport
        THEN [ found |-> FALSE ]
        ELSE [ found            |-> TRUE,
               report_code      |-> report.report_code,
               datasets_version |-> report.datasets_version,
               created_at       |-> report.created_at ]

\* the registry is empty (before the first ingestion) or holds version 1 of
\* every layer
InitSnapshot ==
    /\ dataset_versions \in
          { { }, { DatasetVersion(l, 1, TRUE) : l \in LayerTypes } }
    /\ writers = [ w \in Writers |-> [ pc |-> "idle" ] ]
    /\ readers = [ r \in Readers |-> [ pc |-> "idle" ] ]
    /\ _versions_cache = None
    /\ _cache_timestamp = NULL
    /\ utcnow = 0
    /\ reports = { }
    /\ varchar_enforced \in BOOLEAN
    /\ rep = [ g \in Gens |-> [ pc |-> "idle" ] ]
    /\ verified = NoVerification
    /\ now = 0

\* validate_plot loads the reference versions and returns the verdict that
\* carries them; the report code is drawn for the PDF.  Requests are
\* served one after the other.
ValidatePlot(g) ==
    /\ rep[g].pc = "idle"
    /\ \A h \in Gens : h < g => rep[h].pc = "done"
    /\ \E geom \in Polygons, code \in generate_report_code(now),
          versions \in _load_reference_versions :
          rep' = [ rep EXCEPT ![g] =
                     [ pc                |-> "validated",
                       geometry          |-> geom,
                       pdf_code          |-> code,
                       final_report_code |-> code,
                       validation_result |->
                           [ status |-> validation_status(geom),
                             reference_data_version |-> versions ] ] ]
    /\ UNCHANGED << registryVars, redisVars, engineVars, quotaVars, webVars,
                    reports, varchar_enforced, verified >>

\* record_validation_report for the verdict: a code that is not in use is
\* settled, the row is added and committed
RecordValidationReport(g) ==
    /\ rep[g].pc = "validated"
    /\ \E code \in generate_report_code(now) :
          /\ IF _code_exists(rep[g].final_report_code)
             THEN ~_code_exists(code)
             ELSE code = rep[g].final_report_code
          /\ LET row == audit_record(g, code, rep[g].geometry, now,
                                     rep[g].validation_result)
                 err == commit_error(row)
             IN  IF err = "none"
                 THEN /\ reports' = reports \cup { row }
                      /\ rep' = [ rep EXCEPT ![g] =
                                    StreamingResponse(@, row.report_code,
                                                      row.report_code,
                                                      "none") ]
                 ELSE /\ rep' = [ rep EXCEPT ![g] =
                                    StreamingResponse(@, NoCode, @.pdf_code,
                                                      err) ]
                      /\ UNCHANGED reports
    /\ UNCHANGED << registryVars, redisVars, engineVars, quotaVars, webVars,
                    varchar_enforced, verified >>

\* AuditService.reproduce_validation for a code a client holds
ReproduceValidation ==
    /\ \E code \in DeliveredCodes :
          verified' = [ endpoint |-> "reproduce",
                        result |-> reproduce_validation(code) ]
    /\ UNCHANGED << dataVars, engineVars, quotaVars, webVars,
                    reports, varchar_enforced, rep >>

\* the ingestion rotates one layer: it registers its versions 2, 3, ... one
\* after the other
ROTATED_LAYER == "prodes"

one_at_a_time(w) ==
    \A v \in Writers : v < w => writers[v].pc \in { "done", "failed" }

NextSnapshot ==
    \/ \E w \in Writers :
          one_at_a_time(w) /\ RegisterNewVersion(w, ROTATED_LAYER, w + 1)
    \/ \E w \in Writers : ArchivePrevious(w)
    \/ \E w \in Writers : Flush(w)
    \/ \E w \in Writers : InvalidateCache(w)
    \/ \E w \in Writers : Commit(w)
    \/ \E g \in Gens : ValidatePlot(g)
    \/ \E g \in Gens : RecordValidationReport(g)
    \/ VerifyReport
    \/ VerifyReportGeometry
    \/ ReproduceValidation

-----------------------------------------------------------------------------
(* app/core/rate_limit.py: RedisRateLimiter *)

Calls == 1 .. NumCalls

\* the worker processes, each with one RedisRateLimiter; id(self) of the
\* limiter stands for the worker
Workers == 1 .. NumWorkers

\* the synchronous client blocks its worker from the pipeline to the return
busy(worker) ==
    \E c \in Calls : calls[c].pc = "counted" /\ calls[c].member[2] = worker

\* ZREMRANGEBYSCORE key -inf cutoff
zremrangebyscore(entries, cutoff) ==
    { e \in entries : e.score > cutoff }

\* ZCARD key
zcard(entries) == Cardinality(entries)

\* ZRANGE key 0 0 WITHSCORES: the scores of the entries of lowest score
zrange_first(entries) ==
    { e.score : e \in { f \in entries :
                          \A g \in entries : f.score <= g.score } }

\* ZADD key score member: a member is in the set once, with its last score
zadd(entries, member, score) ==
    { e \in entries : e.member # member }
    \cup { [ member |-> member, score |-> score ] }

\* the sorted set of a client that was allowed n requests, one per second,
\* before the clock started
InitRedis ==
    /\ \E n \in 0 .. RATE_LIMIT_ANONYMOUS :
          zset = { [ member |-> << 0 - i, 1 >>, score |-> 0 - i ] :
                     i \in 1 .. n }
    /\ calls = [ c \in Calls |-> [ pc |-> "idle" ] ]
    /\ time = 0

\* RedisRateLimiter.check up to `pipe.execute()` and the test of
\* current_count: the three commands of the pipeline run in the store as
\* one block; at the limit the call returns allowed=False
PipelineExecute(c, limit, window_seconds) ==
    /\ calls[c].pc = "idle"
    /\ \E worker \in { w \in Workers : ~busy(w) } :
          LET pruned        == zremrangebyscore(zset, time - window_seconds)
              current_count == zcard(pruned)
              oldest        == zrange_first(pruned)
              reset_at      == IF oldest # { }
                               THEN (CHOOSE x \in oldest : TRUE)
                                    + window_seconds
                               ELSE time + window_seconds
          IN  /\ zset' = pruned
              /\ IF current_count >= limit
                 THEN calls' = [ calls EXCEPT ![c] =
                                   [ pc   |-> "done",
                                     info |-> [ allowed   |-> FALSE,
                                                limit     |-> limit,
                                                remaining |-> 0,
                                                reset_at  |-> reset_at ],
                                     current_count |-> current_count ] ]
                 ELSE calls' = [ calls EXCEPT ![c] =
                                   [ pc     |-> "counted",
                                     now    |-> time,
                                     member |-> << time, worker >>,
                                     limit  |-> limit,
                                     reset_at      |-> reset_at,
                                     current_count |-> current_count ] ]
    /\ UNCHANGED << registryVars, engineVars, quotaVars, auditVars,
                    _requests, _last_cleanup, time, granted, authVars,
                    pipeVars >>

\* `self._redis.zadd(key, {member: now})`, a command of its own, and the
\* return of allowed=True.  (`expire` removes the key window_seconds + 10
\* after the last ZADD, when every entry has left the window.)
Zadd(c) ==
    /\ calls[c].pc = "counted"
    /\ zset' = zadd(zset, calls[c].member, calls[c].now)
    /\ calls' = [ calls EXCEPT ![c] =
                    [ pc   |-> "done",
                      info |-> [ allowed   |-> TRUE,
                                 limit     |-> @.limit,
                                 remaining |->
                                     @.limit - @.current_count - 1,
                                 reset_at  |-> @.reset_at ],
                      current_count |-> @.current_count ] ]
    /\ UNCHANGED << registryVars, engineVars, quotaVars, auditVars,
                    _requests, _last_cleanup, time, granted, authVars,
                    pipeVars >>

NextRedis ==
    \/ \E c \in Calls :
          PipelineExecute(c, RATE_LIMIT_ANONYMOUS, RATE_LIMIT_WINDOW)
    \/ \E c \in Calls : Zadd(c)
    \/ TickSeconds

-----------------------------------------------------------------------------
(* Specifications *)

EngineIdle ==
    /\ layers = << >>
    /\ idx = 0
    /\ checks = << >>
    /\ session = "ok"
    /\ verdict = NoVerdict

QuotaIdle ==
    /\ key = << >>
    /\ lock = NoLock
    /\ req = << >>
    /\ admin = [ pc |-> "idle" ]
    /\ adminOps = 0
    /\ start = << >>
    /\ disturbed = FALSE

AuditIdle ==
    /\ reports = { }
    /\ varchar_enforced = TRUE
    /\ rep = << >>
    /\ verified = NoVerification

LimiterIdle ==
    /\ _requests = << >>
    /\ _last_cleanup = 0
    /\ time = 0
    /\ granted = << >>

AuthIdle ==
    /\ emails = { }
    /\ regs = << >>
    /\ logins = 0

PipeIdle ==
    /\ pipe = [ pc |-> "idle" ]
    /\ settings = [ API_KEY |-> API_KEY_UNSET ]

WebIdle == LimiterIdle /\ AuthIdle /\ PipeIdle

RegistryIdle ==
    /\ dataset_versions = { }
    /\ writers = << >>
    /\ readers = << >>
    /\ _versions_cache = None
    /\ _cache_timestamp = NULL
    /\ utcnow = 0

RedisIdle ==
    /\ zset = << >>
    /\ calls = << >>

DataIdle == RegistryIdle /\ RedisIdle

\* the validation engine serving one validate_plot call
Init ==
    InitEngine /\ QuotaIdle /\ now = 0 /\ AuditIdle /\ WebIdle /\ DataIdle

Next == NextEngine

Spec == Init /\ [][Next]_vars

\* the admission middleware serving NumReqs requests for one key
InitSpecQuota ==
    InitQuota /\ EngineIdle /\ AuditIdle /\ WebIdle /\ DataIdle

SpecQuota == InitSpecQuota /\ [][NextQuota]_vars

\* the auth endpoints and the rate limiter they call
InitSpecAuth ==
    /\ InitLimiter /\ InitAuth /\ PipeIdle
    /\ EngineIdle /\ QuotaIdle /\ now = 0 /\ AuditIdle /\ DataIdle

SpecAuth == InitSpecAuth /\ [][NextAuth]_vars

\* the middleware chain serving MaxPipelineRequests requests one after the
\* other, for one api_keys row
InitSpecPipeline ==
    InitPipeline /\ AuthIdle /\ EngineIdle /\ AuditIdle /\ DataIdle

SpecPipeline == InitSpecPipeline /\ [][NextPipeline]_vars

\* generate_quick_report serving NumReports requests, and the verification
\* endpoints
InitSpecAudit ==
    InitAudit /\ EngineIdle /\ QuotaIdle /\ WebIdle /\ DataIdle

SpecAudit == InitSpecAudit /\ [][NextAudit]_vars

\* the dataset version registry serving NumWriters register_new_version
\* calls and NumReaders get_active_versions calls in one process
InitSpecRegistry ==
    /\ InitRegistry /\ RedisIdle
    /\ EngineIdle /\ QuotaIdle /\ now = 0 /\ AuditIdle /\ WebIdle

SpecRegistry == InitSpecRegistry /\ [][NextRegistry]_vars

\* verdicts recorded in the audit trail while dataset versions are registered
InitSpecSnapshot ==
    /\ InitSnapshot /\ RedisIdle
    /\ EngineIdle /\ QuotaIdle /\ WebIdle

SpecSnapshot == InitSpecSnapshot /\ [][NextSnapshot]_vars

\* NumCalls RedisRateLimiter.check calls of worker processes for one client
InitSpecRedis ==
    /\ InitRedis /\ _requests = << >> /\ _last_cleanup = 0 /\ granted = << >>
    /\ AuthIdle /\ PipeIdle /\ RegistryIdle
    /\ EngineIdle /\ QuotaIdle /\ now = 0 /\ AuditIdle

SpecRedis == InitSpecRedis /\ [][NextRedis]_vars

-----------------------------------------------------------------------------
(* Properties of the validation engine *)

\* The veto condition as the specification words it.
VetoCondition(v) ==
    \E i \in 1 .. Len(v.checks) :
        \/ /\ v.checks[i].check_type \in
                { "deforestation_prodes", "terra_indigena", "quilombola",
                  "embargo_ibama" }
           /\ v.checks[i].status = "fail"
        \/ v.checks[i].check_type = "uc" /\ v.checks[i].score = 0

\* C1: a verdict in which prodes, terra_indigena, quilombola or embargo_ibama
\* failed, or in which uc has score 0, is rejected with risk score 0, whatever
\* the weighted aggregate of its checks is.
C1_CriticalBlockerVeto ==
    (verdict # NoVerdict /\ VetoCondition(verdict))
        => (verdict.status = "rejected" /\ verdict.risk_score = 0)

\* A verdict whose only failure is quilombola (weight 5): the aggregate of
\* its checks is 95, and the veto overrides it.
C1_Witness ==
    /\ verdict # NoVerdict
    /\ \A i \in 1 .. Len(verdict.checks) :
          verdict.checks[i].status =
             (IF verdict.checks[i].check_type = "quilombola"
              THEN "fail" ELSE "pass")
    /\ _calculate_risk_score(verdict.checks) = 95

\* C5: a check whose procedure raised or timed out appears as skip, score 50
\* with the error text; every other check has the result its own layer query
\* gives, and the verdict is returned with all checks.
C5_FailedCheckIsolated ==
    /\ \A i \in 1 .. Len(checks) :
          LET kind == checks[i].check_type
              o    == layers[kind]
          IN  IF o.err # "none"
              THEN checks[i] = [ check_type |-> kind, status |-> "skip",
                                 score |-> 50, error |-> o.err ]
              ELSE /\ checks[i].status # "skip"
                   /\ checks[i].error = ""
                   /\ checks[i].status = "fail" <=>
                         (o.area > OVERLAP_MIN /\ (kind = "uc" => o.integral))
                   /\ checks[i].status = "pass" <=> ~(o.area > OVERLAP_MIN)
    /\ verdict # NoVerdict => verdict.checks = checks /\ idx = Len(check_functions) + 1

\* The first check timed out and a later check still found its overlap.
C5_Witness ==
    /\ verdict # NoVerdict
    /\ layers["deforestation_prodes"].err = "timeout"
    /\ verdict.checks[1].status = "skip"
    /\ verdict.checks[2].status = "fail"
    /\ verdict.checks[6].status = "warning"

RECURSIVE NonSkippedWeights(_, _)
NonSkippedWeights(cs, i) ==
    IF i > Len(cs) THEN 0
    ELSE (IF cs[i].status # "skip" THEN CHECK_WEIGHTS[cs[i].check_type] ELSE 0)
         + NonSkippedWeights(cs, i + 1)

RECURSIVE NonSkippedWeighted(_, _)
NonSkippedWeighted(cs, i) ==
    IF i > Len(cs) THEN 0
    ELSE (IF cs[i].status # "skip"
          THEN CHECK_WEIGHTS[cs[i].check_type] * cs[i].score ELSE 0)
         + NonSkippedWeighted(cs, i + 1)

\* C7: without a critical blocker the risk score is the weighted mean over
\* the checks that are not skipped (50 when all are skipped).
C7_ScoreOverNonSkipped ==
    (verdict # NoVerdict /\ ~VetoCondition(verdict)) =>
        verdict.risk_score =
            (IF NonSkippedWeights(verdict.checks, 1) = 0 THEN 50
             ELSE NonSkippedWeighted(verdict.checks, 1)
                     \div NonSkippedWeights(verdict.checks, 1))

-----------------------------------------------------------------------------
(* Properties of the API-key admission *)

AllResponded == \A p \in Reqs : req[p].pc = "done"

WithStatus(code) == { p \in Reqs : req[p].pc = "done" /\ req[p].resp.status = code }

MinOf(a, b) == IF a < b THEN a ELSE b

\* C2: when the NumReqs requests bearing the key have all been answered, in
\* whatever interleaving, with no window reset and no admin write in between
\* and the key valid throughout, a key that had r units of a non-null quota
\* left admitted exactly min(n, r) of the n requests that did not end in a
\* database error and answered 429 to the rest, and requests_this_month grew
\* by exactly one per admission.
C2_ExactlyMinAdmitted ==
    ( /\ AllResponded
      /\ ~disturbed
      /\ start.monthly_quota # NULL
      /\ WithStatus(401) = { } )
    => LET r   == start.monthly_quota - start.requests_this_month
           n   == NumReqs - Cardinality(WithStatus(500))
           adm == Cardinality(WithStatus(200))
       IN  /\ adm = MinOf(n, r)
           /\ Cardinality(WithStatus(429)) = n - adm
           /\ key.requests_this_month = start.requests_this_month + adm

\* One unit was left: a request is rejected with 429 while the request that
\* took the last unit is still in its handler, and the counter equals the
\* quota.
C2_Witness ==
    /\ start.monthly_quota # NULL
    /\ start.monthly_quota - start.requests_this_month = 1
    /\ ~disturbed
    /\ \E p, q \in Reqs :
          /\ req[p].pc = "handler"
          /\ req[q].pc = "done" /\ req[q].resp.status = 429
    /\ key.requests_this_month = key.monthly_quota

\* C3: in the state right after a successful admission of a key with a
\* non-null quota, requests_this_month <= monthly_quota, whatever admissions,
\* monthly resets, plan changes and quota resets came before.
C3_QuotaInvariant ==
    \A p \in Reqs :
        (req[p].pc = "handler" /\ req[p].stored.monthly_quota # NULL)
            => req[p].stored.requests_this_month <= req[p].stored.monthly_quota

\* An admission that takes the last unit of a quota after an admin write or
\* a window reset.
C3_Witness ==
    \E p \in Reqs :
        /\ req[p].pc = "handler"
        /\ disturbed
        /\ req[p].stored.monthly_quota # NULL
        /\ req[p].stored.requests_this_month = req[p].stored.monthly_quota
        /\ key.plan # "enterprise"
        /\ adminOps > 0

\* C4: the window reset comes before the quota comparison, so a request that
\* finds the monthly window of its key over (last reset 30 days ago or more)
\* is not refused for quota.
C4_ResetBeforeQuotaCheck ==
    \A p \in Reqs :
        (req[p].pc = "done" /\ req[p].resp.status = 429) => ~req[p].window_due

-----------------------------------------------------------------------------
(* Properties of the report audit trail *)

Delivered(g) == rep[g].pc = "done" /\ rep[g].resp.status = 200

\* C9: once a PDF has been delivered with an X-Report-Code, a record stored
\* under that code exists: the public verification of the code answers
\* valid, and, while the record has not expired, geometry verification
\* answers valid for the polygon of the request and "Geometria não
\* corresponde ao laudo" for every other polygon.
C9_DeliveredCodeIsAudited ==
    \A g \in Gens :
        Delivered(g) =>
            LET code   == rep[g].resp.X_Report_Code
                report == get_report_by_code(code)
            IN  /\ public_verify_report(code).valid
                /\ now <= report.expires_at =>
                      /\ verify_report(code, rep[g].geometry, now).valid
                      /\ \A other \in Polygons \ { rep[g].geometry } :
                            verify_report(code, other, now) =
                               [ valid |-> FALSE,
                                 error |-> "Geometria não corresponde ao laudo" ]

C11_ReportCodeUnique ==
    \A r1, r2 \in reports : r1.report_code = r2.report_code => r1 = r2

\* Two concurrent requests found the same code unused; one stored its row,
\* the commit of the other was refused by the unique constraint.
C11_Witness ==
    \E g, h \in Gens :
        /\ rep[g].pc = "done" /\ rep[g].resp.status = 200
        /\ rep[h].pc = "done" /\ rep[h].resp.status = 200
        /\ rep[g].stored # NoCode
        /\ rep[h].audit_error = "IntegrityError"
        /\ rep[h].pdf_code = rep[g].stored
        /\ rep[h].geometry # rep[g].geometry

\* the calls of a client that check allowed with a time in [s, s + w)
allowed_in_window(c, s, w) ==
    { i \in DOMAIN granted[c] : granted[c][i] >= s /\ granted[c][i] < s + w }

\* no window of w seconds holds more than l allowed calls of a client of the
\* given kind
within_limit(kind, l, w) ==
    \A c \in ClientIds : c.kind = kind =>
        \A i \in DOMAIN granted[c] :
            Cardinality(allowed_in_window(c, granted[c][i], w)) <= l

\* C12: InMemoryRateLimiter.check never allows more than the limit of calls
\* of one client within any window: at most 5 logins per 5 minutes and at
\* most 3 registrations per 24 hours from one address.
C12_NeverExceedsLimit ==
    /\ within_limit("login", LOGIN_LIMIT, LOGIN_WINDOW)
    /\ within_limit("register", REGISTER_LIMIT, REGISTER_WINDOW)

\* C19: an e-mail address has at most one active, unrevoked API key, also
\* when two registrations for the same e-mail run concurrently: the later
\* one is answered 409 and creates no key.
C19_OneActiveKeyPerEmail ==
    \A email \in Emails : Cardinality(existing(email)) <= 1

\* C14: the response to an admitted request carries X-RateLimit-Limit equal
\* to monthly_quota and X-RateLimit-Remaining equal to monthly_quota minus
\* the requests_this_month stored by this admission, also when the admission
\* reset the monthly window.
C14_HeadersDescribeStoredQuota ==
    \A p \in Reqs :
        req[p].pc = "handler" /\ req[p].stored.monthly_quota # NULL =>
            /\ req[p].resp.limit = req[p].stored.monthly_quota
            /\ req[p].resp.remaining =
                  Max0(req[p].stored.monthly_quota
                         - req[p].stored.requests_this_month)

\* C20: the response of admission to a key that exists but is revoked is
\* identical in status code, body and headers to the response to a key that
\* does not exist.
C20_RevokedLooksAbsent ==
    \A p, q \in Reqs :
        /\ req[p].pc = "done" /\ req[p].row = "revoked"
        /\ req[q].pc = "done" /\ req[q].row = "absent"
        => req[p].resp = req[q].resp

\* One request presented the revoked key, another a key that is in no row,
\* and both were answered.
C20_Witness ==
    \E p, q \in Reqs :
        /\ req[p].pc = "done" /\ req[p].row = "revoked"
        /\ req[q].pc = "done" /\ req[q].row = "absent"
        /\ req[p].resp.status = 401

\* C18: once the key is revoked it stays revoked whatever operation runs,
\* every request bearing it is answered 401, and no step of a request
\* changes the row.
C18_RevokedForever ==
    [][ key.is_revoked =>
          /\ key'.is_revoked
          /\ \A p \in Reqs :
                /\ req[p].pc = "select"
                /\ req[p].x_api_key = "registered"
                /\ req'[p].pc # "select"
                => req'[p].resp.status = 401
          /\ req' # req => key' = key ]_vars

\* C13: a request whose API key admission accepted was rate-limited under
\* the client id key:<prefix> with the authenticated limit; a request
\* without such a key was rate-limited under ip:<addr> with the anonymous
\* limit.
C13_AcceptedKeyIsAuthenticated ==
    pipe.pc \in { "handler", "done" } /\ pipe.rate.ran /\ pipe.admission.ran
    => IF pipe.admission.accepted
       THEN /\ pipe.rate.client_id.kind = "key"
            /\ pipe.rate.limit = RATE_LIMIT_AUTHENTICATED
       ELSE /\ pipe.rate.client_id.kind = "ip"
            /\ pipe.rate.limit = RATE_LIMIT_ANONYMOUS

\* C15: a preflight (OPTIONS) request passes the rate limiter and API-key
\* admission without being answered by them, without a change to the
\* api_keys row and without an entry added to a rate-limit window.
C15_PreflightBypasses ==
    [][ pipe.pc \in { "rate", "admission" } /\ pipe.request.method = "OPTIONS"
        => /\ pipe'.pc # "done"
           /\ key' = key
           /\ _requests' = _requests ]_vars

\* C16: every error response of a stage of the chain (413, 403, 401, 429,
\* 500) carries an Access-Control-Allow-Origin header.
C16_ErrorsCarryCors ==
    pipe.pc = "done" /\ pipe.resp.status >= 400
    => "Access_Control_Allow_Origin" \in DOMAIN pipe.resp.headers

\* C17: whatever the method and the path, a request whose Content-Length
\* exceeds MAX_UPLOAD_SIZE is answered 413 before the rate limiter and
\* admission run, and a request whose Content-Length is exactly
\* MAX_UPLOAD_SIZE is not answered 413.
C17_SizeLimitForEveryRequest ==
    pipe.pc \notin { "idle", "size" } =>
        /\ pipe.request.content_length > MAX_UPLOAD_SIZE
           => /\ pipe.pc = "done" /\ pipe.resp.status = 413
              /\ ~pipe.rate.ran /\ ~pipe.admission.ran
        /\ pipe.request.content_length = MAX_UPLOAD_SIZE
           => ~(pipe.pc = "done" /\ pipe.resp.status = 413)

\* the statuses of the checks of a verdict
StatusesOf(v) == { v.checks[i].status : i \in 1 .. Len(v.checks) }

\* C22: the risk score of every verdict lies between 0 and 100, whatever the
\* statuses and scores of its checks.
C22_RiskScoreBounds ==
    verdict # NoVerdict => verdict.risk_score >= 0 /\ verdict.risk_score <= 100

\* A verdict whose checks show all four statuses and whose score is strictly
\* inside the range.
C22_Witness ==
    /\ verdict # NoVerdict
    /\ StatusesOf(verdict) = CheckStatus
    /\ verdict.risk_score > 0 /\ verdict.risk_score < 100

\* the kinds of the checks of a verdict
KindsOf(v) == { v.checks[i].check_type : i \in 1 .. Len(v.checks) }

C30_NoApprovalWithFailedCheck ==
    verdict # NoVerdict /\ verdict.status = "approved"
        => "fail" \notin StatusesOf(verdict)

stage_index(stage) ==
    IF \E i \in DOMAIN pipe.stages : pipe.stages[i] = stage
    THEN CHOOSE i \in DOMAIN pipe.stages : pipe.stages[i] = stage
    ELSE 0

\* stage a was entered before stage b, if b was entered at all
entered_before(a, b) ==
    stage_index(b) > 0 => stage_index(a) > 0 /\ stage_index(a) < stage_index(b)

\* C24: every request passes the stages in the order size check, logging
\* bind, API-key admission, rate limit, route handler: the request id is
\* bound before admission can reject, and the quota unit is committed
\* before the rate limiter is consulted.
C24_StageOrder ==
    pipe.pc = "done" =>
        /\ entered_before("size", "logging")
        /\ entered_before("logging", "admission")
        /\ entered_before("admission", "rate_limit")
        /\ entered_before("rate_limit", "handler")

\* C25: on every way out of the admission of a request (key not found, key
\* expired, quota exceeded, admitted, exception) the row lock of the request
\* is released before the route handler is called: no request that is in
\* its handler or has been answered holds the lock.
C25_LockReleasedBeforeHandler ==
    \A p \in Reqs : req[p].pc \in { "handler", "done" } => lock # p

\* One request is in its route handler while another one holds the row
\* lock of the same key in its admission.
C25_Witness ==
    \E p, q \in Reqs :
        /\ req[p].pc = "handler"
        /\ req[q].pc = "locked" /\ lock = q

-----------------------------------------------------------------------------
(* Properties of the dataset version registry *)

\* C29: after any sequence of register_new_version calls, concurrent calls
\* for one layer_type included, at most one committed dataset_versions row
\* per layer_type has is_active = true.
C29_OneActiveVersionPerLayer ==
    \A l \in LayerTypes : Cardinality(active_of(l)) <= 1

\* get_active_versions call r returns, in this step, the cached dict
served_from_cache(r) ==
    /\ readers[r].pc = "idle"
    /\ readers'[r].pc = "done"
    /\ readers'[r].from_cache

\* C28: a dict that get_active_versions returns from the cache names, for
\* each of its layers, a version that is active in the committed table (a
\* committed register_new_version for the layer has made the cache forget
\* the version it replaced), and it was cached less than 300 s before.
C28_CacheInvalidatedByWrites ==
    [][\A r \in Readers :
          served_from_cache(r) =>
             /\ \A l \in DOMAIN readers'[r].versions :
                   DatasetVersion(l, readers'[r].versions[l], TRUE)
                       \in dataset_versions
             /\ utcnow - _cache_timestamp < CACHE_TTL_SECONDS]_vars

-----------------------------------------------------------------------------
(* Properties of the audit record of a verdict *)

\* the request whose verdict row `row` was recorded from
recorded_from(row) == rep[row.id]

\* C21: a stored audit record stays in validation_reports with every field
\* unchanged whatever happens next (verifications, reproductions, later
\* recordings, registrations of dataset versions), and the datasets_version
\* of a record is the reference_data_version of the verdict it was recorded
\* from.
C21_AuditRecordImmutable ==
    [][/\ \A row \in reports : row \in reports'
       /\ \A row \in reports' \ reports :
             /\ recorded_from(row).pc = "validated"
             /\ row.datasets_version =
                  recorded_from(row).validation_result.reference_data_version
      ]_vars

\* two records are stored, a version one of them names has been replaced
\* since, and a reproduction has been served
C21_Witness ==
    /\ Cardinality(reports) >= 2
    /\ \E row \in reports : \E l \in DOMAIN row.datasets_version :
          /\ DatasetVersion(l, row.datasets_version[l], FALSE)
                 \in dataset_versions
          /\ \E other \in active_of(l) :
                other.version # row.datasets_version[l]
    /\ verified.endpoint = "reproduce"
    /\ verified.result.found

-----------------------------------------------------------------------------
(* Properties of the shared rate limiter *)

\* C26: of the RedisRateLimiter.check calls for a client that found
\* limit - 1 entries in the current window, at most one returns
\* allowed=true.
C26_BoundaryChecksAtomic ==
    \A c, d \in Calls :
       /\ calls[c].pc = "done" /\ calls[c].info.allowed
       /\ calls[d].pc = "done" /\ calls[d].info.allowed
       /\ calls[c].current_count = calls[c].info.limit - 1
       /\ calls[d].current_count = calls[d].info.limit - 1
       => c = d

=============================================================================
